---- MODULE Spec2Model ----
(***************************************************************************)
(* Model of AutoInsureFill_AI.py: template field scanning, PDF text        *)
(* extraction, LLM extraction with retry and JSON repair, the merge of the *)
(* per-report maps and the placeholder substitution.                       *)
(*                                                                         *)
(* A Python str is a sequence of one-character strings.  A dict is a       *)
(* sequence of [k, v] records with distinct keys, in insertion order.  A   *)
(* parsed JSON value is a record [t, s, items]: t is its type, s its       *)
(* characters (str, num) or its Python text (bool), items its elements     *)
(* (arr) or its pairs (obj).                                               *)
(***************************************************************************)
EXTENDS Integers, Sequences, FiniteSets, TLC

VARIABLES
    pc,             \* position of main()
    hasTemplate,    \* template_file was uploaded
    template,       \* the template document: its paragraph and table-cell texts
    reports,        \* pdf_files: each a sequence of page texts
    fields,         \* template_fields
    idx,            \* index of the report the loop of line 146 is at
    reportText,     \* report_text
    attempt,        \* attempt number of the running get_extracted_data call
    outcomes,       \* how each attempt of the latest get_extracted_data call ended
    called,         \* per report: get_extracted_data was called for it
    allKV,          \* all_key_value_pairs
    mergeIdx,       \* index of the map the loop of line 159 is at
    combined,       \* combined_kv
    filled,         \* filled_doc
    written,        \* filled_doc.save(output_path) has run
    jsonObj,        \* JSON repair: the object a response was rendered from
    jsonIn,         \* JSON repair: the response text
    jsonOut,        \* JSON repair: what get_extracted_data made of it
    pdfIn,          \* text extraction: the page texts of one document
    pdfOut,         \* text extraction: result of extract_text_from_pdf
    fillIn,         \* substitution: one paragraph or cell text
    fillMap,        \* substitution: key_value_pairs
    fillOut         \* substitution: the text after fill_template

pipeVars == <<pc, hasTemplate, template, reports, fields, idx, reportText, attempt,
              outcomes, called, allKV, mergeIdx, combined, filled, written>>
jsonVars == <<jsonObj, jsonIn, jsonOut>>
pdfVars == <<pdfIn, pdfOut>>
fillVars == <<fillIn, fillMap, fillOut>>
vars == <<pipeVars, jsonVars, pdfVars, fillVars>>

----------------------------------------------------------------------------
(* Characters and strings *)

Digits == {"0", "1", "2", "3", "4", "5", "6", "7", "8", "9"}
Upper == {"A", "B", "C", "D", "E", "F", "G", "H", "I", "J", "K", "L", "M",
          "N", "O", "P", "Q", "R", "S", "T", "U", "V", "W", "X", "Y", "Z"}

\* The character class [A-Z0-9_] of the placeholder pattern.
FieldChars == Upper \cup Digits \cup {"_"}

\* Code-point order of the characters of FieldChars.
CharOrder == <<"0", "1", "2", "3", "4", "5", "6", "7", "8", "9",
               "A", "B", "C", "D", "E", "F", "G", "H", "I", "J", "K", "L", "M",
               "N", "O", "P", "Q", "R", "S", "T", "U", "V", "W", "X", "Y", "Z", "_">>

Ord(c) == CHOOSE n \in 1..Len(CharOrder) : CharOrder[n] = c

\* The regular expression class \s, over the characters the model uses.
IsWS(c) == c \in {" ", "\n", "\t", "\r"}

\* s[i..] starts with p.
StartsWith(s, i, p) ==
    /\ i + Len(p) - 1 <= Len(s)
    /\ \A n \in 1..Len(p) : s[i + n - 1] = p[n]

\* First index >= i of s where p occurs, 0 when there is none.
Find(s, i, p) ==
    LET hits == {n \in i..Len(s) : StartsWith(s, n, p)}
    IN IF hits = {} THEN 0 ELSE CHOOSE n \in hits : \A m \in hits : n <= m

\* str.replace(old, new) for a non-empty old: left to right, non-overlapping.
RECURSIVE ReplaceFrom(_, _, _, _)
ReplaceFrom(s, i, old, new) ==
    IF i > Len(s) THEN <<>>
    ELSE IF StartsWith(s, i, old)
         THEN new \o ReplaceFrom(s, i + Len(old), old, new)
         ELSE <<s[i]>> \o ReplaceFrom(s, i + 1, old, new)

Replace(s, old, new) == ReplaceFrom(s, 1, old, new)

\* Python's lexicographic str comparison, on field names.
RECURSIVE StrLess(_, _)
StrLess(a, b) ==
    IF a = <<>> THEN b # <<>>
    ELSE IF b = <<>> THEN FALSE
    ELSE IF a[1] = b[1] THEN StrLess(Tail(a), Tail(b))
    ELSE Ord(a[1]) < Ord(b[1])

\* sorted(list(S)) for a set S of field names.
RECURSIVE Sorted(_)
Sorted(S) ==
    IF S = {} THEN <<>>
    ELSE LET m == CHOOSE x \in S : \A y \in S \ {x} : StrLess(x, y)
         IN <<m>> \o Sorted(S \ {m})

Range(f) == {f[n] : n \in DOMAIN f}

----------------------------------------------------------------------------
(* Dicts *)

DictKeys(d) == {d[n].k : n \in DOMAIN d}
DictHas(d, key) == key \in DictKeys(d)
DictGet(d, key) == d[CHOOSE n \in DOMAIN d : d[n].k = key].v

\* d[key] = value: an existing key keeps its position, a new key is appended.
DictSet(d, key, value) ==
    IF DictHas(d, key)
    THEN [n \in DOMAIN d |-> IF d[n].k = key THEN [k |-> key, v |-> value] ELSE d[n]]
    ELSE Append(d, [k |-> key, v |-> value])

----------------------------------------------------------------------------
(* JSON values as Python objects *)

MkStr(s) == [t |-> "str", s |-> s, items |-> <<>>]
MkNum(s) == [t |-> "num", s |-> s, items |-> <<>>]
MkBool(b) == [t |-> "bool", s |-> IF b THEN <<"T", "r", "u", "e">>
                                       ELSE <<"F", "a", "l", "s", "e">>, items |-> <<>>]
MkArr(items) == [t |-> "arr", s |-> <<>>, items |-> items]
MkObj(pairs) == [t |-> "obj", s |-> <<>>, items |-> pairs]
None == [t |-> "null", s |-> <<>>, items |-> <<>>]
EmptyStr == MkStr(<<>>)

Fail(i) == [ok |-> FALSE, v |-> None, i |-> i]
Ok(v, i) == [ok |-> TRUE, v |-> v, i |-> i]

\* First index >= i of s that holds no whitespace (Len(s) + 1 when none).
RECURSIVE SkipWS(_, _)
SkipWS(s, i) == IF i <= Len(s) /\ IsWS(s[i]) THEN SkipWS(s, i + 1) ELSE i

\* End of the maximal run of digits starting at i.
RECURSIVE DigitsEnd(_, _)
DigitsEnd(s, i) == IF i <= Len(s) /\ s[i] \in Digits THEN DigitsEnd(s, i + 1) ELSE i

\* json's string scanner at the opening quote s[i] (strict: a raw control
\* character inside the string is an error).  The model's texts hold no backslash.
ParseString(s, i) ==
    LET j == Find(s, i + 1, <<"\"">>)
    IN IF j = 0 THEN Fail(i)
       ELSE IF \E n \in (i + 1)..(j - 1) : s[n] \in {"\n", "\t", "\r"} THEN Fail(i)
       ELSE Ok(SubSeq(s, i + 1, j - 1), j + 1)

\* json's number pattern at s[i], a digit: 0 | [1-9][0-9]* (the model's texts
\* hold no sign, fraction or exponent outside strings).
ParseNumber(s, i) ==
    IF s[i] = "0" THEN Ok(MkNum(<<"0">>), i + 1)
    ELSE LET j == DigitsEnd(s, i) IN Ok(MkNum(SubSeq(s, i, j - 1)), j)

RECURSIVE ParseValue(_, _)
RECURSIVE ParseMembers(_, _, _)
RECURSIVE ParseElements(_, _, _)

\* json's JSONObject loop, at the opening quote s[i] of a key; acc is the dict so far.
ParseMembers(s, i, acc) ==
    IF i > Len(s) \/ s[i] # "\"" THEN Fail(i)
    ELSE LET key == ParseString(s, i)
         IN IF ~key.ok THEN Fail(i)
            ELSE LET c == SkipWS(s, key.i)
                 IN IF c > Len(s) \/ s[c] # ":" THEN Fail(c)
                    ELSE LET val == ParseValue(s, SkipWS(s, c + 1))
                         IN IF ~val.ok THEN Fail(val.i)
                            ELSE LET next == DictSet(acc, key.v, val.v)
                                     e == SkipWS(s, val.i)
                                 IN IF e > Len(s) THEN Fail(e)
                                    ELSE IF s[e] = "}" THEN Ok(MkObj(next), e + 1)
                                    ELSE IF s[e] = ","
                                         THEN ParseMembers(s, SkipWS(s, e + 1), next)
                                    ELSE Fail(e)

\* json's JSONArray loop, at the first character s[i] of an element.
ParseElements(s, i, acc) ==
    LET val == ParseValue(s, i)
    IN IF ~val.ok THEN Fail(val.i)
       ELSE LET next == Append(acc, val.v)
                e == SkipWS(s, val.i)
            IN IF e > Len(s) THEN Fail(e)
               ELSE IF s[e] = "]" THEN Ok(MkArr(next), e + 1)
               ELSE IF s[e] = "," THEN ParseElements(s, SkipWS(s, e + 1), next)
               ELSE Fail(e)

\* json's scan_once at s[i].
ParseValue(s, i) ==
    IF i > Len(s) THEN Fail(i)
    ELSE IF s[i] = "\"" THEN LET r == ParseString(s, i)
                             IN IF r.ok THEN Ok(MkStr(r.v), r.i) ELSE Fail(i)
    ELSE IF s[i] = "{" THEN LET j == SkipWS(s, i + 1)
                            IN IF j <= Len(s) /\ s[j] = "}" THEN Ok(MkObj(<<>>), j + 1)
                               ELSE ParseMembers(s, j, <<>>)
    ELSE IF s[i] = "[" THEN LET j == SkipWS(s, i + 1)
                            IN IF j <= Len(s) /\ s[j] = "]" THEN Ok(MkArr(<<>>), j + 1)
                               ELSE ParseElements(s, j, <<>>)
    ELSE IF StartsWith(s, i, <<"n", "u", "l", "l">>) THEN Ok(None, i + 4)
    ELSE IF StartsWith(s, i, <<"t", "r", "u", "e">>) THEN Ok(MkBool(TRUE), i + 4)
    ELSE IF StartsWith(s, i, <<"f", "a", "l", "s", "e">>) THEN Ok(MkBool(FALSE), i + 5)
    ELSE IF s[i] \in Digits THEN ParseNumber(s, i)
    ELSE Fail(i)

\* json.loads(s): one value, with nothing but whitespace around it.
JsonLoads(s) ==
    LET r == ParseValue(s, SkipWS(s, 1))
    IN IF r.ok /\ SkipWS(s, r.i) > Len(s) THEN r ELSE Fail(r.i)

----------------------------------------------------------------------------
(* get_extracted_data: the handling of the model's text *)

\* re.search(r'\{[\s\S]*\}', content): from the first "{" to the last "}".
JsonBlock(content) ==
    LET first == Find(content, 1, <<"{">>)
        closes == {n \in DOMAIN content : content[n] = "}" /\ n > first}
    IN IF first = 0 \/ closes = {}
       THEN [found |-> FALSE, s |-> <<>>]
       ELSE [found |-> TRUE,
             s |-> SubSeq(content, first, CHOOSE n \in closes : \A m \in closes : m <= n)]

\* re.sub(r'//.*', '', s): from each "//" to the end of its line.
RECURSIVE StripCommentsFrom(_, _)
StripCommentsFrom(s, i) ==
    IF i > Len(s) THEN <<>>
    ELSE IF StartsWith(s, i, <<"/", "/">>)
         THEN LET nl == Find(s, i, <<"\n">>)
              IN IF nl = 0 THEN <<>> ELSE StripCommentsFrom(s, nl)
         ELSE <<s[i]>> \o StripCommentsFrom(s, i + 1)

StripComments(s) == StripCommentsFrom(s, 1)

\* re.sub(r',\s*([\}\]])', r'\1', s): a comma, whitespace and a closer become the closer.
RECURSIVE StripTrailingCommasFrom(_, _)
StripTrailingCommasFrom(s, i) ==
    IF i > Len(s) THEN <<>>
    ELSE LET j == SkipWS(s, i + 1)
         IN IF s[i] = "," /\ j <= Len(s) /\ s[j] \in {"}", "]"}
            THEN <<s[j]>> \o StripTrailingCommasFrom(s, j + 1)
            ELSE <<s[i]>> \o StripTrailingCommasFrom(s, i + 1)

StripTrailingCommas(s) == StripTrailingCommasFrom(s, 1)

\* Mutant: None is kept.
CoerceNoneKeeps(v) == v

\* v if v is not None else ""
CoerceNone(v) == IF v = None THEN EmptyStr ELSE v

\* {k: (v if v is not None else "") for k, v in data.items()}
CoerceDict(d) == [n \in DOMAIN d |-> [k |-> d[n].k, v |-> CoerceNone(d[n].v)]]

\* Lines 80-99: what get_extracted_data makes of the model's text: the dict it
\* returns, or the error it raises.
ParseContent(content) ==
    LET m == JsonBlock(content)
    IN IF ~m.found THEN [status |-> "ValueError", data |-> <<>>]
       ELSE LET r == JsonLoads(StripTrailingCommas(StripComments(m.s)))
            IN IF r.ok THEN [status |-> "ok", data |-> CoerceDict(r.v.items)]
               ELSE [status |-> "JSONDecodeError", data |-> <<>>]

----------------------------------------------------------------------------
(* extract_template_fields *)

\* re.findall(r"\[([A-Z0-9_]+)\]", text) from index i on, as a set of names.
RECURSIVE FindAllFrom(_, _)
FindAllFrom(text, i) ==
    IF i > Len(text) THEN {}
    ELSE IF text[i] # "[" THEN FindAllFrom(text, i + 1)
    ELSE LET ends == {n \in (i + 1)..Len(text) : text[n] \notin FieldChars}
             j == IF ends = {} THEN Len(text) + 1
                  ELSE CHOOSE n \in ends : \A m \in ends : n <= m
         IN IF j > i + 1 /\ j <= Len(text) /\ text[j] = "]"
            THEN {SubSeq(text, i + 1, j - 1)} \cup FindAllFrom(text, j + 1)
            ELSE FindAllFrom(text, i + 1)

FindAll(text) == FindAllFrom(text, 1)

\* Lines 25-42: the names in the paragraphs and in the table cells, sorted.
ExtractTemplateFields(doc) ==
    Sorted(UNION ({FindAll(doc.paragraphs[n]) : n \in DOMAIN doc.paragraphs}
                  \cup {FindAll(doc.cells[n]) : n \in DOMAIN doc.cells}))

----------------------------------------------------------------------------
(* extract_text_from_pdf *)

\* Mutant: a page without text is not skipped.
RECURSIVE ExtractTextNoSkip(_)
ExtractTextNoSkip(pages) ==
    IF pages = <<>> THEN <<>>
    ELSE Head(pages) \o <<"\n">> \o ExtractTextNoSkip(Tail(pages))

\* Lines 44-52.  A page is the text page.extract_text() gives for it; <<>> is
\* a page without text (None or "").
RECURSIVE ExtractTextFromPdf(_)
ExtractTextFromPdf(pages) ==
    IF pages = <<>> THEN <<>>
    ELSE LET page_text == Head(pages)
         IN (IF page_text # <<>> THEN page_text \o <<"\n">> ELSE <<>>)
            \o ExtractTextFromPdf(Tail(pages))

----------------------------------------------------------------------------
(* fill_template *)

RECURSIVE JoinStr(_, _)
JoinStr(parts, sep) ==
    IF parts = <<>> THEN <<>>
    ELSE IF Len(parts) = 1 THEN parts[1]
    ELSE parts[1] \o sep \o JoinStr(Tail(parts), sep)

\* repr() of a str that holds no backslash and no double quote.
ReprStr(s) ==
    IF \E n \in DOMAIN s : s[n] = "'" THEN <<"\"">> \o s \o <<"\"">>
    ELSE <<"'">> \o s \o <<"'">>

\* str(value) of line 110, and repr(value) inside a list or a dict.
RECURSIVE PyText(_, _)
PyText(v, asRepr) ==
    IF v.t = "str" THEN (IF asRepr THEN ReprStr(v.s) ELSE v.s)
    ELSE IF v.t \in {"num", "bool"} THEN v.s
    ELSE IF v.t = "null" THEN <<"N", "o", "n", "e">>
    ELSE IF v.t = "arr"
         THEN <<"[">> \o JoinStr([n \in DOMAIN v.items |-> PyText(v.items[n], TRUE)],
                                 <<",", " ">>) \o <<"]">>
    ELSE <<"{">> \o JoinStr([n \in DOMAIN v.items |->
                                ReprStr(v.items[n].k) \o <<":", " ">>
                                \o PyText(v.items[n].v, TRUE)],
                            <<",", " ">>) \o <<"}">>

PyStr(v) == PyText(v, FALSE)

\* f"[{key}]"
Placeholder(key) == <<"[">> \o key \o <<"]">>

\* Lines 107-110: one pass over key_value_pairs.items(), from pair n on.
RECURSIVE FillFrom(_, _, _)
FillFrom(text, kv, n) ==
    IF n > Len(kv) THEN text
    ELSE FillFrom(IF Find(text, 1, Placeholder(kv[n].k)) # 0
                  THEN Replace(text, Placeholder(kv[n].k), PyStr(kv[n].v))
                  ELSE text,
                  kv, n + 1)

FillText(text, kv) == FillFrom(text, kv, 1)

\* Lines 101-123: every paragraph and every table cell is rewritten.
FillTemplate(doc, kv) ==
    [paragraphs |-> [n \in DOMAIN doc.paragraphs |-> FillText(doc.paragraphs[n], kv)],
     cells |-> [n \in DOMAIN doc.cells |-> FillText(doc.cells[n], kv)]]

----------------------------------------------------------------------------
(* The merge of main() *)

\* Mutant: a later non-empty value always wins.
OverwritesLast(acc, key, value) == ~DictHas(acc, key) \/ value # EmptyStr

\* Line 161.
Overwrites(acc, key, value) ==
    \/ ~DictHas(acc, key)
    \/ (DictGet(acc, key) = EmptyStr /\ value # EmptyStr)

\* Lines 160-162 for one kv, from its pair n on.
RECURSIVE MergeFrom(_, _, _)
MergeFrom(acc, kv, n) ==
    IF n > Len(kv) THEN acc
    ELSE MergeFrom(IF Overwrites(acc, kv[n].k, kv[n].v)
                   THEN DictSet(acc, kv[n].k, kv[n].v)
                   ELSE acc,
                   kv, n + 1)

MergeInto(acc, kv) == MergeFrom(acc, kv, 1)

----------------------------------------------------------------------------
(* Bounds and inputs *)

\* Most reports uploaded in one run.
MaxReports == 2

\* stop_after_attempt(3)
MaxAttempts == 3

Q == <<"\"">>
KeyA == Q \o <<"A">> \o Q
KeyB == Q \o <<"B">> \o Q
KeyC == Q \o <<"C">> \o Q

\* {"A": "x", "B": 5}
RespGood == <<"{">> \o KeyA \o <<":", " ">> \o Q \o <<"x">> \o Q \o <<",", " ">>
            \o KeyB \o <<":", " ">> \o <<"5">> \o <<"}">>
\* >\n{"A": null, "B": "y",}\n<
RespNull == <<">", "\n", "{">> \o KeyA \o <<":", " ", "n", "u", "l", "l", ",", " ">>
            \o KeyB \o <<":", " ">> \o Q \o <<"y">> \o Q \o <<",", "}", "\n", "<">>
\* {"A": "", "C": "z"}
RespExtra == <<"{">> \o KeyA \o <<":", " ">> \o Q \o Q \o <<",", " ">>
             \o KeyC \o <<":", " ">> \o Q \o <<"z">> \o Q \o <<"}">>
\* no
RespNoJson == <<"n", "o">>
\* {"A" 5}
RespBad == <<"{">> \o KeyA \o <<" ", "5", "}">>

\* Texts the model can answer with.
Responses == {RespGood, RespNull, RespExtra, RespNoJson, RespBad}

DocPlain == [paragraphs |-> <<<<"a", "b">>>>, cells |-> <<>>]
DocAB == [paragraphs |-> <<<<"[", "A", "]", " ", "[", "A", "]", ".">>>>,
          cells |-> <<<<"[", "B", "]">>, <<"[", "Z", "_", "9", "]">>>>]
DocA == [paragraphs |-> <<<<"[", "A", "]", "[", "b", "]">>>>, cells |-> <<>>]
Templates == {DocPlain, DocAB, DocA}

\* Uploaded reports: one page without text; one page; a page without text and a page.
ReportSamples == {<< <<>> >>, << <<"a">> >>, << <<>>, <<"b", "c">> >>}

SeqsUpTo(S, n) == UNION {[1..m -> S] : m \in 0..n}

NoDoc == [paragraphs |-> <<>>, cells |-> <<>>]
Pending == [status |-> "pending", data |-> <<>>]

\* The variables of the specifications of the single functions, at rest.
JsonIdle == jsonObj = <<>> /\ jsonIn = <<>> /\ jsonOut = Pending
PdfIdle == pdfIn = <<>> /\ pdfOut = <<"-">>
FillIdle == fillIn = <<>> /\ fillMap = <<>> /\ fillOut = <<"-">>

PipeIdle ==
    /\ pc = "idle" /\ hasTemplate = FALSE /\ template = NoDoc /\ reports = <<>>
    /\ fields = <<>> /\ idx = 0 /\ reportText = <<>> /\ attempt = 0
    /\ outcomes = <<>> /\ called = <<>> /\ allKV = <<>> /\ mergeIdx = 0
    /\ combined = <<>> /\ filled = NoDoc /\ written = FALSE

----------------------------------------------------------------------------
(* main() *)

Init ==
    /\ pc = "button"
    /\ hasTemplate \in BOOLEAN
    /\ template \in Templates
    /\ reports \in SeqsUpTo(ReportSamples, MaxReports)
    /\ fields = <<>>
    /\ idx = 0
    /\ reportText = <<>>
    /\ attempt = 0
    /\ outcomes = <<>>
    /\ called = [n \in DOMAIN reports |-> FALSE]
    /\ allKV = <<>>
    /\ mergeIdx = 0
    /\ combined = <<>>
    /\ filled = NoDoc
    /\ written = FALSE
    /\ JsonIdle /\ PdfIdle /\ FillIdle

\* Lines 132-134: a template and at least one report must be uploaded.
UploadMissing ==
    /\ pc = "button"
    /\ ~hasTemplate \/ reports = <<>>
    /\ pc' = "err_upload"
    /\ UNCHANGED <<hasTemplate, template, reports, fields, idx, reportText, attempt,
                   outcomes, called, allKV, mergeIdx, combined, filled, written>>
    /\ UNCHANGED <<jsonVars, pdfVars, fillVars>>

\* Lines 138-145: the template's fields; none is an error.
ScanTemplate ==
    /\ pc = "button"
    /\ hasTemplate /\ reports # <<>>
    /\ fields' = ExtractTemplateFields(template)
    /\ IF fields' = <<>>
       THEN pc' = "err_no_fields" /\ idx' = idx
       ELSE pc' = "loop" /\ idx' = 1
    /\ UNCHANGED <<hasTemplate, template, reports, reportText, attempt,
                   outcomes, called, allKV, mergeIdx, combined, filled, written>>
    /\ UNCHANGED <<jsonVars, pdfVars, fillVars>>

\* Mutant: the text is not tested.
HasTextAlways(text) == TRUE

\* Line 149: if report_text.
HasText(text) == text # <<>>

\* Lines 146-149: the next report's text; a report without text is skipped.
ReadReport ==
    /\ pc = "loop"
    /\ idx <= Len(reports)
    /\ reportText' = ExtractTextFromPdf(reports[idx])
    /\ IF HasText(reportText')
       THEN /\ pc' = "call"
            /\ attempt' = 1
            /\ outcomes' = <<>>
            /\ called' = [called EXCEPT ![idx] = TRUE]
            /\ idx' = idx
       ELSE /\ pc' = "loop"
            /\ idx' = idx + 1
            /\ UNCHANGED <<attempt, outcomes, called>>
    /\ UNCHANGED <<hasTemplate, template, reports, fields, allKV, mergeIdx,
                   combined, filled, written>>
    /\ UNCHANGED <<jsonVars, pdfVars, fillVars>>

\* Mutant: the decorator retries on every exception.
RetriedAny(outcome) == outcome # "ok"

\* Mutant: the decorator retries on a ValueError too.
RetriedValueError(outcome) == outcome \in {"ConnectionError", "HTTPError", "ValueError"}

\* Lines 54-58: the exceptions the decorator retries on.
Retried(outcome) == outcome \in {"ConnectionError", "HTTPError"}

\* Mutant: an exception that is not retried is swallowed and the loop goes on
\* with the next report.
OnExceptionSkips(e, n, i) ==
    IF e \in {"ConnectionError", "HTTPError"} /\ n < MaxAttempts
    THEN [pc |-> "call", attempt |-> n + 1, idx |-> i]
    ELSE [pc |-> "loop", attempt |-> n, idx |-> i + 1]

\* Lines 54-58 and 150: an exception of attempt n is retried while the decorator
\* allows it; otherwise it (or tenacity's RetryError) leaves main().
OnException(e, n, i) ==
    IF Retried(e) /\ n < MaxAttempts
    THEN [pc |-> "call", attempt |-> n + 1, idx |-> i]
    ELSE [pc |-> "err_call", attempt |-> n, idx |-> i]

\* Lines 68-76 raise: requests.post a ConnectionError, raise_for_status an
\* HTTPError.  The decorator calls again until the third attempt and then raises.
TransportFailure ==
    /\ pc = "call"
    /\ \E e \in {"ConnectionError", "HTTPError"} :
         /\ outcomes' = Append(outcomes, e)
         /\ pc' = OnException(e, attempt, idx).pc
         /\ attempt' = OnException(e, attempt, idx).attempt
         /\ idx' = OnException(e, attempt, idx).idx
    /\ UNCHANGED <<hasTemplate, template, reports, fields, reportText,
                   called, allKV, mergeIdx, combined, filled, written>>
    /\ UNCHANGED <<jsonVars, pdfVars, fillVars>>

\* Line 77 raises: the body of a 2xx response holds no choices[0].message.content.
BodyFailure ==
    /\ pc = "call"
    /\ outcomes' = Append(outcomes, "KeyError")
    /\ pc' = OnException("KeyError", attempt, idx).pc
    /\ attempt' = OnException("KeyError", attempt, idx).attempt
    /\ idx' = OnException("KeyError", attempt, idx).idx
    /\ UNCHANGED <<hasTemplate, template, reports, fields, reportText,
                   called, allKV, mergeIdx, combined, filled, written>>
    /\ UNCHANGED <<jsonVars, pdfVars, fillVars>>

\* Lines 77-99 and 150-151: the model answers; the dict parsed out of its text
\* is appended, a text without one raises.
Response ==
    /\ pc = "call"
    /\ \E content \in Responses :
         LET r == ParseContent(content)
         IN /\ outcomes' = Append(outcomes, r.status)
            /\ IF r.status = "ok"
               THEN /\ allKV' = Append(allKV, r.data)
                    /\ pc' = "loop"
                    /\ idx' = idx + 1
                    /\ attempt' = attempt
               ELSE /\ pc' = OnException(r.status, attempt, idx).pc
                    /\ attempt' = OnException(r.status, attempt, idx).attempt
                    /\ idx' = OnException(r.status, attempt, idx).idx
                    /\ allKV' = allKV
    /\ UNCHANGED <<hasTemplate, template, reports, fields, reportText,
                   called, mergeIdx, combined, filled, written>>
    /\ UNCHANGED <<jsonVars, pdfVars, fillVars>>

\* Lines 153-158: after the last report; no map at all is an error.
ReportsDone ==
    /\ pc = "loop"
    /\ idx > Len(reports)
    /\ IF allKV = <<>>
       THEN pc' = "err_no_data" /\ mergeIdx' = mergeIdx /\ combined' = combined
       ELSE pc' = "merge" /\ mergeIdx' = 1 /\ combined' = <<>>
    /\ UNCHANGED <<hasTemplate, template, reports, fields, idx, reportText, attempt,
                   outcomes, called, allKV, filled, written>>
    /\ UNCHANGED <<jsonVars, pdfVars, fillVars>>

\* Lines 159-162: one map is merged into combined_kv.
MergeStep ==
    /\ pc = "merge"
    /\ mergeIdx <= Len(allKV)
    /\ combined' = MergeInto(combined, allKV[mergeIdx])
    /\ mergeIdx' = mergeIdx + 1
    /\ UNCHANGED <<pc, hasTemplate, template, reports, fields, idx, reportText, attempt,
                   outcomes, called, allKV, filled, written>>
    /\ UNCHANGED <<jsonVars, pdfVars, fillVars>>

\* Line 169.
Fill ==
    /\ pc = "merge"
    /\ mergeIdx > Len(allKV)
    /\ filled' = FillTemplate(template, combined)
    /\ pc' = "save"
    /\ UNCHANGED <<hasTemplate, template, reports, fields, idx, reportText, attempt,
                   outcomes, called, allKV, mergeIdx, combined, written>>
    /\ UNCHANGED <<jsonVars, pdfVars, fillVars>>

\* Lines 172-175.
Save ==
    /\ pc = "save"
    /\ written' = TRUE
    /\ pc' = "done"
    /\ UNCHANGED <<hasTemplate, template, reports, fields, idx, reportText, attempt,
                   outcomes, called, allKV, mergeIdx, combined, filled>>
    /\ UNCHANGED <<jsonVars, pdfVars, fillVars>>

Next ==
    \/ UploadMissing
    \/ ScanTemplate
    \/ ReadReport
    \/ TransportFailure
    \/ BodyFailure
    \/ Response
    \/ ReportsDone
    \/ MergeStep
    \/ Fill
    \/ Save

Spec == Init /\ [][Next]_vars

----------------------------------------------------------------------------
(* Properties of main() *)

TransportFailures == {"ConnectionError", "HTTPError"}
Malformed == {"ValueError", "JSONDecodeError"}
ErrorPcs == {"err_upload", "err_no_fields", "err_call", "err_no_data"}

\* C1: one call of get_extracted_data invokes the endpoint at most 3 times, and
\* every attempt but the last one ended in a transport-level failure: an attempt
\* that ends in success or in a content failure is the last one of its call.
C1_AtMostThreeAttempts ==
    /\ Len(outcomes) <= 3
    /\ \A n \in 1..(Len(outcomes) - 1) : outcomes[n] \in TransportFailures
    /\ pc = "call" =>
         /\ attempt = Len(outcomes) + 1
         /\ attempt <= 3
         /\ \A n \in 1..Len(outcomes) : outcomes[n] \in TransportFailures

\* A call that succeeded at its third attempt, after two transport failures.
C1_Witness ==
    /\ Len(outcomes) = 3
    /\ outcomes[1] \in TransportFailures /\ outcomes[2] \in TransportFailures
    /\ outcomes[3] = "ok"

\* A call that ran out of attempts.
C1_WitnessExhausted ==
    /\ Len(outcomes) = 3 /\ outcomes[3] \in TransportFailures /\ pc = "err_call"

LastMalformed == outcomes # <<>> /\ outcomes[Len(outcomes)] \in Malformed
AfterMalformedNothing ==
    LastMalformed => UNCHANGED <<pc, outcomes, called, allKV, written>>

\* C2: a response without a JSON block, or with one that does not parse, ends
\* the call at that attempt and leaves main() with the error: nothing is called,
\* merged or written after it.
C2_MalformedNotRetried ==
    /\ [](\A n \in DOMAIN outcomes :
            outcomes[n] \in Malformed =>
              /\ n = Len(outcomes)
              /\ pc = "err_call"
              /\ ~written
              /\ \A i \in DOMAIN called : i > idx => ~called[i])
    /\ [][AfterMalformedNothing]_vars

\* A malformed first answer for the first of two reports.
C2_Witness ==
    /\ pc = "err_call"
    /\ Len(outcomes) = 1 /\ outcomes[1] \in Malformed
    /\ idx = 1 /\ Len(reports) = 2

\* The values supplied for key by kvs, in order.
RECURSIVE Supplied(_, _)
Supplied(kvs, key) ==
    IF kvs = <<>> THEN <<>>
    ELSE (IF DictHas(Head(kvs), key) THEN <<DictGet(Head(kvs), key)>> ELSE <<>>)
         \o Supplied(Tail(kvs), key)

\* The first value of vals that is not "", or "" when there is none.
FirstNonEmpty(vals) ==
    LET hits == {n \in DOMAIN vals : vals[n] # EmptyStr}
    IN IF hits = {} THEN EmptyStr ELSE vals[CHOOSE n \in hits : \A m \in hits : n <= m]

AllKeys(kvs) == UNION {DictKeys(kvs[n]) : n \in DOMAIN kvs}

NonEmptyKept ==
    \A key \in DictKeys(combined) :
      DictGet(combined, key) # EmptyStr =>
        /\ DictHas(combined', key)
        /\ DictGet(combined', key) = DictGet(combined, key)

\* C3: after each map merged, combined_kv holds, for every key supplied so far,
\* the first non-empty value supplied for it in upload order, or "" when every
\* supplied value is empty; and no step changes a key that holds a non-empty value.
C3_FirstNonEmptyWins ==
    /\ [](pc \in {"merge", "save", "done"} =>
            LET seen == SubSeq(allKV, 1, mergeIdx - 1)
            IN /\ DictKeys(combined) = AllKeys(seen)
               /\ \A key \in AllKeys(seen) :
                    DictGet(combined, key) = FirstNonEmpty(Supplied(seen, key)))
    /\ [][NonEmptyKept]_vars

\* A finished merge in which a later map filled an empty value of an earlier
\* one, and in which a later non-empty value lost against an earlier one.
C3_Witness ==
    /\ pc = "done"
    /\ \E key \in DictKeys(combined) : \E i, j \in DOMAIN allKV :
         /\ i < j /\ DictHas(allKV[i], key) /\ DictHas(allKV[j], key)
         /\ DictGet(allKV[i], key) = EmptyStr
         /\ DictGet(allKV[j], key) # EmptyStr
         /\ DictGet(combined, key) = DictGet(allKV[j], key)
    /\ \E key \in DictKeys(combined) : \E i, j \in DOMAIN allKV :
         /\ i < j /\ DictHas(allKV[i], key) /\ DictHas(allKV[j], key)
         /\ DictGet(allKV[i], key) # EmptyStr
         /\ DictGet(allKV[j], key) \notin {EmptyStr, DictGet(allKV[i], key)}
         /\ DictGet(combined, key) = DictGet(allKV[i], key)

Values(d) == {d[n].v : n \in DOMAIN d}
MapsInPlay == Range(allKV) \cup {combined}

DictGood == <<[k |-> <<"A">>, v |-> MkStr(<<"x">>)], [k |-> <<"B">>, v |-> MkNum(<<"5">>)]>>
DictNull == <<[k |-> <<"A">>, v |-> EmptyStr], [k |-> <<"B">>, v |-> MkStr(<<"y">>)]>>
DictExtra == <<[k |-> <<"A">>, v |-> EmptyStr], [k |-> <<"C">>, v |-> MkStr(<<"z">>)]>>

C5_KeysAreTemplateFields ==
    \A d \in MapsInPlay : DictKeys(d) \subseteq Range(fields)

NumCalled == Cardinality({i \in DOMAIN called : called[i]})

ErrorIsFinal == pc \in ErrorPcs => UNCHANGED <<pc, written, filled>>

\* C6: the document is written only by a run without error: with a template
\* with fields, with reports, with every report read, with a map from every
\* report get_extracted_data was called for, and there is at least one; and a
\* run that ended in an error stays there and writes nothing.
C6_WrittenOnlyWithoutError ==
    /\ [](written =>
            /\ pc = "done"
            /\ hasTemplate /\ reports # <<>> /\ fields # <<>>
            /\ idx = Len(reports) + 1
            /\ allKV # <<>>
            /\ Len(allKV) = NumCalled
            /\ outcomes[Len(outcomes)] = "ok")
    /\ [](pc \in ErrorPcs => ~written /\ filled = NoDoc)
    /\ [][ErrorIsFinal]_vars

\* A run whose first report was extracted and whose second report failed.
C6_Witness ==
    /\ pc = "err_call" /\ idx = 2 /\ Len(allKV) = 1 /\ ~written

\* C7: get_extracted_data is called for a report exactly if its text is not
\* empty; a report without text adds no map and the loop goes on.
C7_CalledIffText ==
    /\ \A i \in DOMAIN reports :
         /\ called[i] => ExtractTextFromPdf(reports[i]) # <<>>
         /\ i < idx => (called[i] <=> ExtractTextFromPdf(reports[i]) # <<>>)
    /\ Len(allKV) <= NumCalled
    /\ pc \in {"loop", "merge", "save", "done", "err_no_data"} => Len(allKV) = NumCalled

\* A finished run whose first report had no text and whose second had.
C7_Witness ==
    /\ pc = "done"
    /\ Len(reports) = 2
    /\ ExtractTextFromPdf(reports[1]) = <<>> /\ ~called[1]
    /\ called[2] /\ Len(allKV) = 1

----------------------------------------------------------------------------
(* extract_text_from_pdf on its own *)

\* Most pages of a document.
MaxPages == 3

\* What page.extract_text() gives: nothing, or a text.
PageTexts == {<<>>, <<"a">>, <<"b", "c">>, <<" ">>}

NotRun == <<"-">>

InitPdf ==
    /\ pdfIn \in SeqsUpTo(PageTexts, MaxPages)
    /\ pdfOut = NotRun
    /\ PipeIdle /\ JsonIdle /\ FillIdle

ExtractPdf ==
    /\ pdfOut = NotRun
    /\ pdfOut' = ExtractTextFromPdf(pdfIn)
    /\ UNCHANGED <<pdfIn, pipeVars, jsonVars, fillVars>>

NextPdf == ExtractPdf

SpecPdf == InitPdf /\ [][NextPdf]_vars

IsText(page) == page # <<>>

\* C9 as claimed: when every page yields text, the result is the page texts
\* joined by a newline, in page order.
C9_JoinedByNewline ==
    (pdfOut # NotRun /\ \A n \in DOMAIN pdfIn : IsText(pdfIn[n]))
      => pdfOut = JoinStr(pdfIn, <<"\n">>)

\* C9 as amended: the result is the texts of the pages that yield text, in page
\* order, each followed by a newline: their join by a newline and one more
\* newline at the end; pages without text add nothing.
C9_EachPageThenNewline ==
    pdfOut # NotRun =>
      LET withText == SelectSeq(pdfIn, IsText)
      IN pdfOut = IF withText = <<>> THEN <<>>
                  ELSE JoinStr(withText, <<"\n">>) \o <<"\n">>

\* A document with a page without text between two pages with text.
C9_Witness ==
    /\ pdfOut # NotRun
    /\ Len(pdfIn) = 3 /\ IsText(pdfIn[1]) /\ ~IsText(pdfIn[2]) /\ IsText(pdfIn[3])
    /\ pdfOut = pdfIn[1] \o <<"\n">> \o pdfIn[3] \o <<"\n">>

----------------------------------------------------------------------------
(* fill_template on one text *)

\* Most pairs of key_value_pairs.
MaxFillPairs == 2

FillKeys == {<<"A">>, <<"B">>, <<"C">>}
FillValues == {MkStr(<<"x">>), EmptyStr, MkNum(<<"5">>), MkStr(<<"B">>),
               MkStr(<<"[", "B", "]">>)}
FillTexts == {<<"[", "A", "]">>,
              <<"[", "A", "]", " ", "[", "A", "]">>,
              <<"x", "[", "A", "]", "y", "[", "B", "]">>,
              <<"[", "C", "]", "[", "A", "]">>,
              <<"[", "[", "A", "]", "]">>,
              <<"[", "U", "N", "K", "]">>,
              <<"[", "A">>,
              <<"a", "b">>}

\* The dicts of at most n pairs, with distinct keys.
Dicts(keys, values, n) ==
    {d \in SeqsUpTo([k : keys, v : values], n) :
       \A i, j \in DOMAIN d : i # j => d[i].k # d[j].k}

InitFill ==
    /\ fillIn \in FillTexts
    /\ fillMap \in Dicts(FillKeys, FillValues, MaxFillPairs)
    /\ fillOut = NotRun
    /\ PipeIdle /\ JsonIdle /\ PdfIdle

FillOne ==
    /\ fillOut = NotRun
    /\ fillOut' = FillText(fillIn, fillMap)
    /\ UNCHANGED <<fillIn, fillMap, pipeVars, jsonVars, pdfVars>>

NextFill == FillOne

SpecFill == InitFill /\ [][NextFill]_vars

\* The text with every occurrence of a placeholder of kv, as it stands in the
\* text, replaced by the text of its value, and the rest unchanged.
RECURSIVE Substituted(_, _, _)
Substituted(text, kv, i) ==
    IF i > Len(text) THEN <<>>
    ELSE LET here == {n \in DOMAIN kv : StartsWith(text, i, Placeholder(kv[n].k))}
         IN IF here = {}
            THEN <<text[i]>> \o Substituted(text, kv, i + 1)
            ELSE LET n == CHOOSE m \in here : TRUE
                 IN PyStr(kv[n].v) \o Substituted(text, kv, i + Len(Placeholder(kv[n].k)))

\* C8 as claimed: the filled text is the template text with each occurrence of
\* [K] replaced by the value of K, for every key K of the map, and with all
\* other text, placeholders of absent fields included, unchanged.
C8_EveryPlaceholderReplaced ==
    fillOut # NotRun => fillOut = Substituted(fillIn, fillMap, 1)

----------------------------------------------------------------------------
(* The JSON repair of get_extracted_data on its own *)

\* Most pairs of the object the model answers with.
MaxJsonPairs == 2

JsonKeys == {<<"A">>, <<"B">>}
JsonValues == {MkStr(<<"x">>), None, MkNum(<<"5">>),
               MkArr(<<MkNum(<<"1">>), MkStr(<<"x">>)>>),
               MkStr(<<"a", "/", "/", "b">>),
               MkStr(<<"a", ",", "}">>)}

\* How the model writes its answer: text before and after the object, a comma
\* after the last pair and the last element, a comment after each pair.
Styles == [pre : {<<>>, <<"H", "i", ":", "\n">>},
           post : {<<>>, <<"\n", "o", "k">>},
           trailing : BOOLEAN,
           comment : BOOLEAN]

\* The JSON text of a value.
RECURSIVE Render(_, _)
Render(v, style) ==
    IF v.t = "str" THEN Q \o v.s \o Q
    ELSE IF v.t = "num" THEN v.s
    ELSE IF v.t = "null" THEN <<"n", "u", "l", "l">>
    ELSE <<"[">> \o JoinStr([n \in DOMAIN v.items |-> Render(v.items[n], style)],
                            <<",", " ">>)
         \o (IF style.trailing THEN <<",">> ELSE <<>>) \o <<"]">>

\* The JSON text of an object, one pair a line when commented.
RenderObject(pairs, style) ==
    LET note == IF style.comment THEN <<" ", "/", "/", " ", "c", "\n">> ELSE <<>>
        line(n) == Q \o pairs[n].k \o Q \o <<":", " ">> \o Render(pairs[n].v, style)
                   \o (IF n < Len(pairs) \/ style.trailing THEN <<",">> ELSE <<>>)
                   \o (IF style.comment THEN note ELSE <<" ">>)
    IN <<"{">> \o JoinStr([n \in DOMAIN pairs |-> line(n)], <<>>) \o <<"}">>

InitJson ==
    /\ jsonObj \in Dicts(JsonKeys, JsonValues, MaxJsonPairs)
    /\ \E style \in Styles :
         jsonIn = style.pre \o RenderObject(jsonObj, style) \o style.post
    /\ jsonOut = Pending
    /\ PipeIdle /\ PdfIdle /\ FillIdle

ParseOne ==
    /\ jsonOut = Pending
    /\ jsonOut' = ParseContent(jsonIn)
    /\ UNCHANGED <<jsonObj, jsonIn, pipeVars, pdfVars, fillVars>>

NextJson == ParseOne

SpecJson == InitJson /\ [][NextJson]_vars

\* C10 as claimed: a response whose span from the first "{" to the last "}" is
\* a JSON object but for // comments and trailing commas is parsed, and the
\* result is the content of that object (a null as ""); the text around the
\* span is ignored.
C10_RepairedObjectReturned ==
    jsonOut # Pending => jsonOut = [status |-> "ok", data |-> CoerceDict(jsonObj)]
====
